---- MODULE Spec2Model ----
(***************************************************************************)
(* The evaluation loop of pytorch_lightning/trainer/evaluation_loop.py:    *)
(* run_evaluation, _evaluate, the epoch-end reducer and the two metric     *)
(* publishers, as a state machine with one program counter.                *)
(***************************************************************************)
EXTENDS Integers, Sequences, FiniteSets, TLC

\* ------------------------------------------------------------------ bounds
\* number of data sources of a run, batches a source yields, values a step returns
MaxSources == 2
MaxBatches == 2
MaxVal == 2

\* ------------------------------------------------------------ python values
\* Python objects are records tagged by kind:
\*   none, tensor (0-dim, a rational num/den), vector (1-dim tensor of ints),
\*   dict (legacy mapping), EvalResult (structured result), list.
None == [kind |-> "none"]

RECURSIVE Gcd(_, _)
Gcd(a, b) == IF b = 0 THEN a ELSE Gcd(b, a % b)

Tensor(n, d) == [kind |-> "tensor", num |-> n \div Gcd(n, d), den |-> d \div Gcd(n, d)]

Scalar(v) == Tensor(v, 1)

Vector(s) == [kind |-> "vector", elems |-> s]

ListOf(s) == [kind |-> "list", elems |-> s]

IsList(x) == x.kind = "list"

IsTensor(x) == x.kind \in {"tensor", "vector"}

IsEvalResult(x) == x.kind = "EvalResult"

EmptyMap == [k \in {} |-> None]

\* dict.update(g) on f, and {**f, **g}
Update(f, g) == [k \in (DOMAIN f) \cup (DOMAIN g) |-> IF k \in DOMAIN g THEN g[k] ELSE f[k]]

Restrict(f, keys) == [k \in (DOMAIN f) \cap keys |-> f[k]]

RECURSIVE SumSeq(_)
SumSeq(s) == IF s = <<>> THEN 0 ELSE Head(s) + SumSeq(Tail(s))

\* torch.Tensor.mean(): a 0-dim tensor is its own mean
TensorMean(t) == IF t.kind = "vector"
                 THEN IF Len(t.elems) = 0 THEN [kind |-> "nan"]
                      ELSE Tensor(SumSeq(t.elems), Len(t.elems))
                 ELSE t

\* --------------------------------------------------------- result container
CallbackKeys == {"checkpoint_on", "early_stop_on"}

LoggedKeys == {"acc"}

\* the key sets a structured step output may carry
Shapes == {{}, {"checkpoint_on"}, {"early_stop_on", "acc"}, {"checkpoint_on", "early_stop_on", "acc"}}

SlotValue(k, v) == IF k = "early_stop_on" THEN MaxVal + 1 - v ELSE v

EvalResultOf(items) == [kind |-> "EvalResult", items |-> items]

\* the structured output of one step: every key of the shape holds a 0-dim tensor
StepResult(shape, v) == EvalResultOf([k \in shape |-> Scalar(SlotValue(k, v))])

DictOf(items) == [kind |-> "dict", items |-> items]

\* the outputs the per-batch computation hook can return
LegacyOutputs == {Scalar(v) : v \in 1..MaxVal} \cup {DictOf([val_acc |-> Scalar(v)]) : v \in 1..MaxVal}

StructuredOutputs(prev) ==
    LET shapes == IF prev = <<>> THEN Shapes ELSE {DOMAIN prev[1].items}
    IN UNION {IF sh = {} THEN {StepResult(sh, 1)} ELSE {StepResult(sh, v) : v \in 1..MaxVal} : sh \in shapes}

\* one key of the results of a source, batch by batch
Column(outs, k) == [j \in 1..Len(outs) |-> outs[j].items[k].num]

\* Result.gather: one instance with the keys of the first output, every value
\* the per-batch values stacked
Gather(outs) == EvalResultOf([k \in DOMAIN outs[1].items |-> Vector(Column(outs, k))])

\* Result.reduce_on_epoch_end: as gather, the logged metrics reduced by their
\* mean; the reserved slots are left stacked
ReduceOnEpochEnd(outs) ==
    EvalResultOf([k \in DOMAIN outs[1].items |->
        IF k \in LoggedKeys THEN TensorMean(Vector(Column(outs, k))) ELSE Vector(Column(outs, k))])

\* the three views of a structured result
CallbackMetricsOf(r) == Restrict(r.items, CallbackKeys)

EpochPbarMetricsOf(r) == Restrict(r.items, LoggedKeys)

EpochLogMetricsOf(r) == Restrict(r.items, LoggedKeys)

\* 'checkpoint_on' in result: result.checkpoint_on = result.checkpoint_on.mean()
MeanSlot(r, k) == IF k \in DOMAIN r.items
                  THEN EvalResultOf([r.items EXCEPT ![k] = TensorMean(r.items[k])])
                  ELSE r

MeanSlots(r) == MeanSlot(MeanSlot(r, "checkpoint_on"), "early_stop_on")

\* ------------------------------------------------ legacy output processing
\* flatten_dict on what the legacy branch hands it: a mapping gives its items,
\* a list the merge of its entries in order (a bare number binds val_loss)
RECURSIVE FlattenDict(_)
FlattenDict(x) == IF IsTensor(x) THEN [val_loss |-> x]
                  ELSE IF x.kind = "dict" THEN x.items
                  ELSE IF x.kind = "list"
                       THEN IF x.elems = <<>> THEN EmptyMap
                            ELSE Update(FlattenDict(ListOf(SubSeq(x.elems, 1, Len(x.elems) - 1))),
                                        FlattenDict(x.elems[Len(x.elems)]))
                  ELSE EmptyMap

\* process_output: (progress bar, log, callback) views of a legacy result
ProcessOutput(x) == [pbar |-> EmptyMap, log |-> EmptyMap,
                     callback |-> IF x.kind = "dict" THEN x.items ELSE EmptyMap]

\* ------------------------------------------------------------ epoch reducer
Raised == [kind |-> "raise"]

HookNames == {"test_end", "test_epoch_end", "validation_end", "validation_epoch_end"}

NoHook == "no_hook"

\* the Epoch Output as a Python list of lists
OutputsList(outputs) == ListOf([i \in 1..Len(outputs) |-> ListOf(outputs[i])])

\* __gather_epoch_end_eval_results; epoch_output[0] of an empty list raises
GatherEpochEndEvalResults(outputs) ==
    IF \E i \in 1..Len(outputs) : outputs[i] = <<>> THEN Raised
    ELSE LET eval_results == [i \in 1..Len(outputs) |-> MeanSlots(Gather(outputs[i]))]
         IN IF Len(eval_results) = 1 THEN eval_results[1] ELSE ListOf(eval_results)

\* the reduction with the reserved slots left as reduce_on_epoch_end gave them
AutoReduceResultObjs_no_mean(outputs) ==
    IF \E i \in 1..Len(outputs) : outputs[i] = <<>> THEN Raised
    ELSE ListOf([i \in 1..Len(outputs) |-> ReduceOnEpochEnd(outputs[i])])

\* __auto_reduce_result_objs; dl_output[0] of an empty list raises
AutoReduceResultObjs(outputs) ==
    IF \E i \in 1..Len(outputs) : outputs[i] = <<>> THEN Raised
    ELSE ListOf([i \in 1..Len(outputs) |-> MeanSlots(ReduceOnEpochEnd(outputs[i]))])

\* the priority with the current hook looked up before the legacy one
HookFor_current_first(tm, ov) ==
    IF tm
    THEN IF "test_epoch_end" \in ov THEN "test_epoch_end"
         ELSE IF "test_end" \in ov THEN "test_end" ELSE "no_hook"
    ELSE IF "validation_epoch_end" \in ov THEN "validation_epoch_end"
         ELSE IF "validation_end" \in ov THEN "validation_end" ELSE "no_hook"

\* the user hook the reducer picks: the legacy hook of the mode first
HookFor(tm, ov) ==
    IF tm
    THEN IF "test_end" \in ov THEN "test_end"
         ELSE IF "test_epoch_end" \in ov THEN "test_epoch_end" ELSE NoHook
    ELSE IF "validation_end" \in ov THEN "validation_end"
         ELSE IF "validation_epoch_end" \in ov THEN "validation_epoch_end" ELSE NoHook

\* the epoch-end hooks of a mode
ModeHooks(tm) == IF tm THEN {"test_end", "test_epoch_end"}
                 ELSE {"validation_end", "validation_epoch_end"}

IsLegacyHook(h) == h \in {"test_end", "validation_end"}

\* the outputs handed on as a list of lists whatever the number of sources
Collapse_never(outputs, ndl) == OutputsList(outputs)

\* eval_results before any hook: with a single dataloader don't pass an array
Collapse(outputs, ndl) == IF ndl = 1 THEN ListOf(outputs[1]) ELSE OutputsList(outputs)

\* the argument the user hook is called with
HookArg(outputs, ndl, using) ==
    IF using THEN GatherEpochEndEvalResults(outputs) ELSE Collapse(outputs, ndl)

\* what a user epoch-end hook can return: a bare result of the variant in use,
\* or (structured, one source) the gathered result it was given
HookReturns(arg, using) ==
    IF using
    THEN {EvalResultOf([checkpoint_on |-> Scalar(MaxVal)])}
         \cup (IF IsEvalResult(arg) THEN {arg} ELSE {})
    ELSE {Scalar(MaxVal), DictOf([val_acc |-> Scalar(1)])}

\* the reducer returning its result without the final wrap
WrapList_never(eval_results) == eval_results

\* the final normalisation: a result that is no list is wrapped in one
WrapList(eval_results) ==
    IF eval_results = Raised THEN Raised
    ELSE IF ~IsList(eval_results) THEN ListOf(<<eval_results>>) ELSE eval_results

\* __run_eval_epoch_end, user_ret being what the hook (if one is called) returns
RunEvalEpochEnd(tm, outputs, ndl, using, ov, user_ret) ==
    LET hook == HookFor(tm, ov)
        arg == IF hook = NoHook THEN None ELSE HookArg(outputs, ndl, using)
        called == hook # NoHook /\ arg # Raised
        reduced == IF hook # NoHook
                   THEN IF arg = Raised THEN Raised ELSE user_ret
                   ELSE IF using THEN AutoReduceResultObjs(outputs)
                   ELSE Collapse(outputs, ndl)
    IN [eval_results |-> WrapList(reduced),
        hooks |-> IF called THEN <<hook>> ELSE <<>>,
        arg |-> arg,
        warned |-> called /\ IsLegacyHook(hook)]

\* --------------------------------------------------------- metrics publisher
\* the legacy branch's flat mapping of one result
LegacyFlat(eval_result) ==
    IF IsTensor(eval_result) THEN [val_loss |-> eval_result] ELSE FlattenDict(eval_result)

RECURSIVE UpdateAll(_, _)
UpdateAll(store, results) ==
    IF results = <<>> THEN store
    ELSE UpdateAll(Update(store, LegacyFlat(Head(results))), Tail(results))

\* __update_callback_metrics: the store after the sync
UpdateCallbackMetrics(store, eval_results, using) ==
    IF using
    THEN IF IsList(eval_results)
         THEN IF eval_results.elems = <<>> THEN store
              ELSE CallbackMetricsOf(eval_results.elems[Len(eval_results.elems)])
         ELSE CallbackMetricsOf(eval_results)
    ELSE IF IsList(eval_results)
         THEN UpdateAll(store, eval_results.elems)
         ELSE Update(store, LegacyFlat(eval_results))

\* the three views of one epoch result in __log_evaluation_epoch_metrics
ViewsOf(result, tm) ==
    IF IsEvalResult(result)
    THEN [pbar |-> EpochPbarMetricsOf(result), log |-> EpochLogMetricsOf(result),
          callback |-> IF tm THEN EmptyMap ELSE CallbackMetricsOf(result)]
    ELSE ProcessOutput(result)

\* eval loop returns all metrics
DataloaderResultMetrics(result, tm) ==
    LET v == ViewsOf(result, tm) IN Update(Update(v.pbar, v.log), v.callback)

\* __log_evaluation_epoch_metrics over results, from the state acc
RECURSIVE LogEach(_, _, _)
LogEach(acc, results, tm) ==
    IF results = <<>> THEN acc
    ELSE LET result == Head(results)
             v == ViewsOf(result, tm)
             m == DataloaderResultMetrics(result, tm)
         IN LogEach([loop_results |-> IF DOMAIN m # {} THEN Append(acc.loop_results, m)
                                      ELSE acc.loop_results,
                     store |-> Update(acc.store, v.callback),
                     sink |-> Append(acc.sink, [pbar |-> v.pbar, log |-> v.log])],
                    Tail(results), tm)

LogEvaluationEpochMetrics(store, eval_results, tm) ==
    LET start == [loop_results |-> <<>>, store |-> store, sink |-> <<>>]
        results == IF IsList(eval_results) THEN eval_results.elems ELSE <<eval_results>>
    IN IF eval_results # None /\ (~IsList(eval_results) \/ Len(eval_results.elems) > 0)
       THEN LogEach(start, results, tm)
       ELSE start

\* ------------------------------------------------------------------- state
VARIABLES
    pc,                 \* position in run_evaluation / _evaluate
    test_mode,          \* the argument of the current call
    reload,             \* reload_dataloaders_every_epoch
    val_dataloaders, num_val_batches,
    test_dataloaders, num_test_batches,
    dataloaders, max_batches,   \* the locals of run_evaluation
    callback_metrics,   \* the shared callback-metric store
    outputs,            \* evaluation_loop.outputs
    variant,            \* what the step hook of this run returns
    dataloader_idx, batch_idx, dl_outputs,
    eval_results, eval_loop_results,
    ret,                \* what the call returned, None while it has not
    training, grad_enabled,
    trace,              \* the run-level calls of this run, in order
    resets,             \* dataloader resets so far (identity of a list)
    produced,           \* the step outputs of this run that were not None, with their source
    yielded,            \* the batches the current source has yielded
    last_batch,         \* what the source gave last: null, batch, over (the limit), end
    stepped,            \* batch indices of the current source given to the step hook
    last_hooks,         \* the per-batch hooks of the latest processed batch
    last_logged,        \* the output last forwarded to the step-level log
    overridden,         \* the overridden epoch-end hooks of the mode
    hooks_called,       \* the user epoch-end hooks the reducer called
    hook_arg, hook_ret, \* what the hook was given and what it returned
    warned,             \* a deprecation warning was recorded
    store_at_start,     \* the store when the call began
    sink                \* what was forwarded to the progress bar and the logger

vars == <<pc, test_mode, reload, val_dataloaders, num_val_batches,
          test_dataloaders, num_test_batches, dataloaders, max_batches,
          callback_metrics, outputs, variant, dataloader_idx, batch_idx, dl_outputs,
          eval_results, eval_loop_results, ret, training, grad_enabled, trace, resets,
          produced, yielded, last_batch, stepped, last_hooks, last_logged, overridden,
          hooks_called, hook_arg, hook_ret, warned, store_at_start, sink>>

config == <<reload>>
persistent == <<val_dataloaders, num_val_batches, test_dataloaders, num_test_batches>>
loopvars == <<dataloader_idx, batch_idx, dl_outputs, produced, yielded, last_batch,
              stepped, last_hooks, last_logged>>
reducervars == <<overridden, hooks_called, hook_arg, hook_ret, warned>>

\* a list of n data sources, the gen-th the provisioning collaborator built
DataloaderList(n, gen) == [kind |-> "list", n |-> n, gen |-> gen]

Limits(n) == [1..n -> 0..MaxBatches]

Variants == {"legacy", "structured"}

RECURSIVE Sum(_)
Sum(s) == IF s = <<>> THEN 0 ELSE Head(s) + Sum(Tail(s))

\* The trainer between two calls of run_evaluation: as constructed, or as an
\* earlier validation run and then an earlier test run left it (each over one
\* source, limit 1, one batch, the legacy step output 1, no user hook; with the
\* reload policy each run rebuilt its list once more before it returned).
Init ==
    /\ pc = "idle"
    /\ test_mode = FALSE
    /\ reload \in BOOLEAN
    /\ \/ /\ val_dataloaders = None /\ num_val_batches = <<>>
          /\ test_dataloaders = None /\ num_test_batches = <<>>
          /\ callback_metrics = EmptyMap
          /\ outputs = <<>>
          /\ resets = 0
       \/ /\ resets = (IF reload THEN 4 ELSE 2)
          /\ val_dataloaders = DataloaderList(1, resets \div 2) /\ num_val_batches = <<1>>
          /\ test_dataloaders = DataloaderList(1, resets) /\ num_test_batches = <<1>>
          /\ callback_metrics = [val_loss |-> Scalar(1)]
          /\ outputs = <<(<<Scalar(1)>>)>>
    /\ dataloaders = None /\ max_batches = <<>>
    /\ variant = "legacy"
    /\ dataloader_idx = 0 /\ batch_idx = 0 /\ dl_outputs = <<>>
    /\ eval_results = None /\ eval_loop_results = <<>>
    /\ ret = None
    /\ training = TRUE /\ grad_enabled = TRUE
    /\ trace = <<>>
    /\ produced = <<>>
    /\ yielded = <<>> /\ last_batch = "-" /\ stepped = {}
    /\ last_hooks = <<>> /\ last_logged = None
    /\ overridden = {} /\ hooks_called = <<>>
    /\ hook_arg = None /\ hook_ret = None
    /\ warned = FALSE
    /\ store_at_start = EmptyMap
    /\ sink = <<>>

\* ------------------------------------------------------------ run_evaluation
\* entry: model.on_pre_performance_check()
BeginRun ==
    /\ pc = "idle"
    /\ \E tm \in BOOLEAN : test_mode' = tm
    /\ pc' = "select"
    /\ trace' = <<"on_pre_performance_check">>
    /\ store_at_start' = callback_metrics
    /\ UNCHANGED <<config, persistent, dataloaders, max_batches, callback_metrics,
                   outputs, variant, loopvars, eval_results, eval_loop_results, ret,
                   training, grad_enabled, resets, reducervars, sink>>

\* reset_test_dataloader / reset_val_dataloader: the collaborator builds a list
\* of sources and their batch limits, or leaves none
ResetDataloader(n, lim) ==
    /\ resets' = resets + 1
    /\ dataloaders' = IF n = 0 THEN None ELSE DataloaderList(n, resets + 1)
    /\ max_batches' = IF n = 0 THEN <<>> ELSE lim

\* the selection rebuilding the validation list on every call, as for test
SelectDataloaders_always_reset ==
    /\ pc = "select"
    /\ pc' = "skip_check"
    /\ \/ /\ test_mode
          /\ \E n \in 0..MaxSources : \E lim \in Limits(n) : ResetDataloader(n, lim)
          /\ test_dataloaders' = dataloaders' /\ num_test_batches' = max_batches'
          /\ trace' = Append(trace, "reset_test_dataloader")
          /\ UNCHANGED <<val_dataloaders, num_val_batches>>
       \/ /\ ~test_mode
          /\ \E n \in 0..MaxSources : \E lim \in Limits(n) : ResetDataloader(n, lim)
          /\ val_dataloaders' = dataloaders' /\ num_val_batches' = max_batches'
          /\ trace' = Append(trace, "reset_val_dataloader")
          /\ UNCHANGED <<test_dataloaders, num_test_batches>>
    /\ UNCHANGED <<test_mode, config, callback_metrics, outputs, variant, loopvars,
                   eval_results, eval_loop_results, ret, training, grad_enabled,
                   reducervars, store_at_start, sink>>

\* select dataloaders
SelectDataloaders ==
    /\ pc = "select"
    /\ pc' = "skip_check"
    /\ \/ /\ test_mode
          /\ \E n \in 0..MaxSources : \E lim \in Limits(n) : ResetDataloader(n, lim)
          /\ test_dataloaders' = dataloaders' /\ num_test_batches' = max_batches'
          /\ trace' = Append(trace, "reset_test_dataloader")
          /\ UNCHANGED <<val_dataloaders, num_val_batches>>
       \/ /\ ~test_mode /\ val_dataloaders = None
          /\ \E n \in 0..MaxSources : \E lim \in Limits(n) : ResetDataloader(n, lim)
          /\ val_dataloaders' = dataloaders' /\ num_val_batches' = max_batches'
          /\ trace' = Append(trace, "reset_val_dataloader")
          /\ UNCHANGED <<test_dataloaders, num_test_batches>>
       \/ /\ ~test_mode /\ val_dataloaders # None
          /\ dataloaders' = val_dataloaders /\ max_batches' = num_val_batches
          /\ UNCHANGED <<persistent, resets, trace>>
    /\ UNCHANGED <<test_mode, config, callback_metrics, outputs, variant, loopvars,
                   eval_results, eval_loop_results, ret, training, grad_enabled,
                   reducervars, store_at_start, sink>>

\* return [], []
ReturnEmpty == ret' = [kind |-> "tuple", eval_loop_results |-> <<>>, eval_results |-> ListOf(<<>>)]

\* if dataloaders is None: return [], []
ReturnNoDataloaders ==
    /\ pc = "skip_check"
    /\ dataloaders = None
    /\ ReturnEmpty
    /\ pc' = "returned"
    /\ UNCHANGED <<test_mode, config, persistent, dataloaders, max_batches,
                   callback_metrics, outputs, variant, loopvars, eval_results,
                   eval_loop_results, training, grad_enabled, trace, resets,
                   reducervars, store_at_start, sink>>

StartHook == IF test_mode THEN "on_test_start" ELSE "on_validation_start"

EndHook == IF test_mode THEN "on_test_end" ELSE "on_validation_end"

\* the skip taken only for an empty list of limits
should_skip_empty == Len(max_batches) = 0

\* enable disabling validation step with limit_val_batches = 0
should_skip == Sum(max_batches) = 0

\* Validation/Test begin callbacks, then the limit_val_batches = 0 check
StartOrSkip ==
    /\ pc = "skip_check"
    /\ dataloaders # None
    /\ trace' = Append(trace, StartHook)
    /\ \/ /\ should_skip
          /\ ReturnEmpty
          /\ pc' = "returned"
       \/ /\ ~should_skip
          /\ pc' = "setup"
          /\ UNCHANGED ret
    /\ UNCHANGED <<test_mode, config, persistent, dataloaders, max_batches,
                   callback_metrics, outputs, variant, loopvars, eval_results,
                   eval_loop_results, training, grad_enabled, resets,
                   reducervars, store_at_start, sink>>

\* ----------------------------------------------------------------- _evaluate
\* evaluation_loop.setup: a fresh Epoch Output, the limits, the model in
\* evaluation mode; then on_evaluation_epoch_start. The step hook of the run
\* returns outputs of one variant.
Setup ==
    /\ pc = "setup"
    /\ \E v \in Variants : variant' = v
    /\ outputs' = <<>>
    /\ training' = FALSE /\ grad_enabled' = FALSE
    /\ trace' = trace \o <<"setup", "on_evaluation_epoch_start">>
    /\ dataloader_idx' = 1 /\ batch_idx' = 0 /\ dl_outputs' = <<>>
    /\ yielded' = <<>> /\ last_batch' = "-" /\ stepped' = {}
    /\ pc' = "loop"
    /\ UNCHANGED <<test_mode, config, persistent, dataloaders, max_batches,
                   callback_metrics, produced, last_hooks, last_logged, eval_results,
                   eval_loop_results, ret, resets, reducervars, store_at_start, sink>>

\* the limit compared with > where the code has >=
dl_max_batches_off_by_one == max_batches[dataloader_idx] + 1

\* each dataloader has a max num batches
dl_max_batches == max_batches[dataloader_idx]

\* the limit applied to the number of batches processed so far
OverLimit_processed_count == Cardinality(stepped) >= dl_max_batches

\* stop short when running on limited batches
OverLimit == batch_idx >= dl_max_batches

\* evaluation_loop.is_using_eval_results
IsUsingEvalResults == variant = "structured"

StepOutputs == IF variant = "structured" THEN StructuredOutputs(dl_outputs) ELSE LegacyOutputs

\* the hooks of a batch with the step-level log ahead of the cleanup
BatchHooks_log_before_cleanup ==
    <<"on_evaluation_batch_start", "evaluation_step", "evaluation_step_end",
      "on_evaluation_batch_end", "log_metrics", "evaluation_batch_end_cleanup">>

\* the hooks run for one batch, in order (the append of an output that is
\* not None comes after them)
BatchHooks == <<"on_evaluation_batch_start", "evaluation_step", "evaluation_step_end",
                "on_evaluation_batch_end", "evaluation_batch_end_cleanup", "log_metrics">>

\* the source has another batch to give
HasNext == batch_idx < MaxBatches

loopfixed == <<test_mode, config, persistent, dataloaders, max_batches,
               callback_metrics, variant, eval_results, eval_loop_results, ret,
               training, grad_enabled, trace, resets, reducervars, store_at_start, sink>>

\* the next source starting with the list the last one filled
FinishSource_keeps_dl_outputs ==
    /\ outputs' = Append(outputs, dl_outputs)
    /\ yielded' = <<>> /\ stepped' = {}
    /\ batch_idx' = 0 /\ dl_outputs' = dl_outputs
    /\ IF dataloader_idx = dataloaders.n
       THEN pc' = "epoch_end" /\ UNCHANGED dataloader_idx
       ELSE pc' = "loop" /\ dataloader_idx' = dataloader_idx + 1

\* self.evaluation_loop.outputs.append(dl_outputs), then the next dataloader
FinishSource ==
    /\ outputs' = Append(outputs, dl_outputs)
    /\ yielded' = <<>> /\ stepped' = {}
    /\ batch_idx' = 0 /\ dl_outputs' = <<>>
    /\ IF dataloader_idx = dataloaders.n
       THEN pc' = "epoch_end" /\ UNCHANGED dataloader_idx
       ELSE pc' = "loop" /\ dataloader_idx' = dataloader_idx + 1

\* a null batch ending the source (break where the code has continue)
NextBatchNull_break ==
    /\ pc = "loop" /\ HasNext
    /\ last_batch' = "null"
    /\ FinishSource
    /\ UNCHANGED <<loopfixed, produced, last_hooks, last_logged>>

\* if batch is None: continue
NextBatchNull ==
    /\ pc = "loop" /\ HasNext
    /\ yielded' = Append(yielded, "null")
    /\ last_batch' = "null"
    /\ batch_idx' = batch_idx + 1
    /\ UNCHANGED <<loopfixed, pc, outputs, dataloader_idx, dl_outputs, produced, stepped,
                   last_hooks, last_logged>>

\* if batch_idx >= dl_max_batches: break
NextBatchBreak ==
    /\ pc = "loop" /\ HasNext
    /\ OverLimit
    /\ last_batch' = "over"
    /\ FinishSource
    /\ UNCHANGED <<loopfixed, produced, last_hooks, last_logged>>

\* the hooks of one batch; a step output that is not None is recorded
NextBatchStep ==
    /\ pc = "loop" /\ HasNext
    /\ ~OverLimit
    /\ \E output \in StepOutputs \cup {None} :
          /\ last_logged' = output
          /\ dl_outputs' = IF output # None THEN Append(dl_outputs, output) ELSE dl_outputs
          /\ produced' = IF output # None
                         THEN Append(produced, [source |-> dataloader_idx, output |-> output])
                         ELSE produced
          /\ last_hooks' = BatchHooks \o (IF output # None THEN <<"dl_outputs.append">> ELSE <<>>)
    /\ yielded' = Append(yielded, "batch")
    /\ last_batch' = "batch"
    /\ stepped' = stepped \cup {batch_idx}
    /\ batch_idx' = batch_idx + 1
    /\ UNCHANGED <<loopfixed, pc, outputs, dataloader_idx>>

\* the failure of the step hook caught, the batch dropped and the loop going on
NextBatchRaise_swallowed ==
    /\ pc = "loop" /\ HasNext
    /\ ~OverLimit
    /\ last_hooks' = SubSeq(BatchHooks, 1, 2)
    /\ yielded' = Append(yielded, "batch")
    /\ last_batch' = "batch"
    /\ stepped' = stepped \cup {batch_idx}
    /\ batch_idx' = batch_idx + 1
    /\ UNCHANGED <<loopfixed, pc, outputs, dataloader_idx, dl_outputs, produced, last_logged>>

\* the per-batch computation hook raises: nothing catches it
NextBatchRaise ==
    /\ pc = "loop" /\ HasNext
    /\ ~OverLimit
    /\ last_hooks' = SubSeq(BatchHooks, 1, 2)
    /\ yielded' = Append(yielded, "batch")
    /\ last_batch' = "batch"
    /\ stepped' = stepped \cup {batch_idx}
    /\ pc' = "raised"
    /\ UNCHANGED <<loopfixed, outputs, dataloader_idx, batch_idx, dl_outputs, produced,
                   last_logged>>

\* the source is exhausted
SourceExhausted ==
    /\ pc = "loop"
    /\ last_batch' = "end"
    /\ FinishSource
    /\ UNCHANGED <<loopfixed, produced, last_hooks, last_logged>>

\* EVAL_EPOCH_END: the reducer, with what is_overridden answers and what the
\* user hook returns
EpochEnd ==
    /\ pc = "epoch_end"
    /\ \E ov \in SUBSET HookNames :
       \E user_ret \in HookReturns(HookArg(outputs, dataloaders.n, IsUsingEvalResults),
                                   IsUsingEvalResults) :
          LET r == RunEvalEpochEnd(test_mode, outputs, dataloaders.n, IsUsingEvalResults,
                                   ov, user_ret)
          IN /\ overridden' = ov \cap ModeHooks(test_mode)
             /\ hooks_called' = r.hooks
             /\ hook_arg' = IF r.hooks # <<>> THEN r.arg ELSE None
             /\ hook_ret' = IF r.hooks # <<>> THEN user_ret ELSE None
             /\ warned' = r.warned
             /\ IF r.eval_results = Raised
                THEN pc' = "raised" /\ UNCHANGED eval_results
                ELSE pc' = "sync" /\ eval_results' = r.eval_results
    /\ trace' = Append(trace, "run_eval_epoch_end")
    /\ last_batch' = "-"
    /\ UNCHANGED <<test_mode, config, persistent, dataloaders, max_batches,
                   callback_metrics, outputs, variant, dataloader_idx, batch_idx,
                   dl_outputs, produced, yielded, stepped, last_hooks, last_logged,
                   eval_loop_results, ret, training, grad_enabled, resets,
                   store_at_start, sink>>

\* log callback metrics
SyncCallbackMetrics ==
    /\ pc = "sync"
    /\ callback_metrics' = UpdateCallbackMetrics(callback_metrics, eval_results,
                                                 IsUsingEvalResults)
    /\ trace' = Append(trace, "update_callback_metrics")
    /\ pc' = "finish"
    /\ UNCHANGED <<test_mode, config, persistent, dataloaders, max_batches,
                   outputs, variant, loopvars, eval_results, eval_loop_results, ret,
                   training, grad_enabled, resets, reducervars, store_at_start, sink>>

\* _evaluate returning with the model left in evaluation mode
FinishEvaluate_no_restore ==
    /\ pc = "finish"
    /\ trace' = trace \o <<"predictions_to_disk", "on_evaluation_epoch_end">>
    /\ pc' = "publish"
    /\ UNCHANGED <<test_mode, config, persistent, dataloaders, max_batches,
                   callback_metrics, outputs, variant, loopvars, eval_results,
                   eval_loop_results, ret, training, grad_enabled, resets, reducervars,
                   store_at_start, sink>>

\* predictions to disk, train mode again, gradients enabled, ON_EVAL_EPOCH_END
FinishEvaluate ==
    /\ pc = "finish"
    /\ training' = TRUE
    /\ grad_enabled' = TRUE
    /\ trace' = trace \o <<"predictions_to_disk", "model_train", "set_grad_enabled",
                           "on_evaluation_epoch_end">>
    /\ pc' = "publish"
    /\ UNCHANGED <<test_mode, config, persistent, dataloaders, max_batches,
                   callback_metrics, outputs, variant, loopvars, eval_results,
                   eval_loop_results, ret, resets, reducervars, store_at_start, sink>>

\* log the final eval loop metrics
PublishEpochMetrics ==
    /\ pc = "publish"
    /\ LET r == LogEvaluationEpochMetrics(callback_metrics, eval_results, test_mode)
       IN /\ eval_loop_results' = r.loop_results
          /\ callback_metrics' = r.store
          /\ sink' = r.sink
    /\ trace' = Append(trace, "log_evaluation_epoch_metrics")
    /\ pc' = "post"
    /\ UNCHANGED <<test_mode, config, persistent, dataloaders, max_batches,
                   outputs, variant, loopvars, eval_results, ret, training, grad_enabled,
                   resets, reducervars, store_at_start>>

\* on_post_performance_check, the eventual reload, the end callbacks, the return
PostPerformanceCheck ==
    /\ pc = "post"
    /\ \/ /\ reload /\ test_mode
          /\ \E n \in 0..MaxSources : \E lim \in Limits(n) :
                /\ resets' = resets + 1
                /\ test_dataloaders' = IF n = 0 THEN None ELSE DataloaderList(n, resets + 1)
                /\ num_test_batches' = lim
          /\ trace' = trace \o <<"on_post_performance_check", "reset_test_dataloader", EndHook>>
          /\ UNCHANGED <<val_dataloaders, num_val_batches>>
       \/ /\ reload /\ ~test_mode
          /\ \E n \in 0..MaxSources : \E lim \in Limits(n) :
                /\ resets' = resets + 1
                /\ val_dataloaders' = IF n = 0 THEN None ELSE DataloaderList(n, resets + 1)
                /\ num_val_batches' = lim
          /\ trace' = trace \o <<"on_post_performance_check", "reset_val_dataloader", EndHook>>
          /\ UNCHANGED <<test_dataloaders, num_test_batches>>
       \/ /\ ~reload
          /\ trace' = trace \o <<"on_post_performance_check", EndHook>>
          /\ UNCHANGED <<persistent, resets>>
    /\ ret' = [kind |-> "tuple", eval_loop_results |-> eval_loop_results,
               eval_results |-> eval_results]
    /\ pc' = "returned"
    /\ UNCHANGED <<test_mode, config, dataloaders, max_batches, callback_metrics,
                   outputs, variant, loopvars, eval_results, eval_loop_results,
                   training, grad_enabled, reducervars, store_at_start, sink>>

Next ==
    \/ BeginRun
    \/ SelectDataloaders
    \/ ReturnNoDataloaders
    \/ StartOrSkip
    \/ Setup
    \/ NextBatchNull
    \/ NextBatchBreak
    \/ NextBatchStep
    \/ NextBatchRaise
    \/ SourceExhausted
    \/ EpochEnd
    \/ SyncCallbackMetrics
    \/ FinishEvaluate
    \/ PublishEpochMetrics
    \/ PostPerformanceCheck

Spec == Init /\ [][Next]_vars

\* ------------------------------------------------------------------ claims
\* the run-level call e has happened in this run
Did(e) == \E k \in 1..Len(trace) : trace[k] = e

\* the reducer has returned in this run
Reduced == Did("run_eval_epoch_end") /\ pc # "raised"

\* this step did something
Changed == vars' # vars

\* C1: after the batch loop the output list of source i is no longer than its
\* limit M[i], and is empty when M[i] = 0 (so is the list being filled, at
\* every moment of the loop).
C1_OutputsWithinLimits ==
    Did("setup") =>
        /\ \A i \in 1..Len(outputs) :
              /\ Len(outputs[i]) <= max_batches[i]
              /\ (max_batches[i] = 0 => outputs[i] = <<>>)
        /\ (pc = "loop" => Len(dl_outputs) <= max_batches[dataloader_idx])
        /\ (pc \notin {"loop", "raised"} => Len(outputs) = dataloaders.n)

\* two sources, limits 1 and 0: one output recorded for the first, and the
\* second stopped at a batch beyond its limit with nothing recorded
C1_Witness ==
    /\ pc = "epoch_end" /\ last_batch = "over"
    /\ max_batches = <<1, 0>>
    /\ Len(outputs[1]) = 1 /\ outputs[2] = <<>>

\* C2: a null batch invokes no per-batch hook and no step-level log, adds
\* nothing to the output list, and leaves the loop in the same source at the next
\* index; a non-null batch below the limit that comes after a null batch is
\* processed.
C2_NullBatchSkipped ==
    [][/\ (pc = "loop" /\ Changed /\ last_batch' = "null") =>
            /\ pc' = "loop" /\ dataloader_idx' = dataloader_idx
            /\ batch_idx' = batch_idx + 1
            /\ last_hooks' = last_hooks /\ last_logged' = last_logged
            /\ stepped' = stepped
            /\ dl_outputs' = dl_outputs /\ outputs' = outputs
       /\ (/\ pc = "loop" /\ Changed
           /\ \E k \in 1..Len(yielded) : yielded[k] = "null"
           /\ last_batch' \in {"batch", "over"}
           /\ batch_idx < max_batches[dataloader_idx]) =>
            /\ last_batch' = "batch"
            /\ batch_idx \in stepped'
            /\ Len(last_hooks') >= 2 /\ last_hooks'[2] = "evaluation_step"]_vars

\* a null batch at index 0, then the batch at index 1 processed and recorded
C2_Witness ==
    /\ pc = "loop"
    /\ yielded = <<"null", "batch">>
    /\ stepped = {1}
    /\ Len(dl_outputs) = 1

LegacyHookOf(tm) == IF tm THEN "test_end" ELSE "validation_end"

CurrentHookOf(tm) == IF tm THEN "test_epoch_end" ELSE "validation_epoch_end"

RECURSIVE MetricNamesOf(_)
MetricNamesOf(x) ==
    IF IsTensor(x) THEN {"val_loss"}
    ELSE IF x.kind \in {"dict", "EvalResult"} THEN DOMAIN x.items
    ELSE IF x.kind = "list" THEN UNION {MetricNamesOf(x.elems[j]) : j \in 1..Len(x.elems)}
    ELSE {}

\* C4: the store is merge-updated, never replaced: a key an earlier run wrote,
\* whose name is none of this run's metric names, is still in the store with its
\* value when this run has returned.
C4_StoreMergedNotReplaced ==
    (pc = "returned" /\ Did("update_callback_metrics")) =>
        \A k \in (DOMAIN store_at_start) \ MetricNamesOf(eval_results) :
            /\ k \in DOMAIN callback_metrics
            /\ callback_metrics[k] = store_at_start[k]

\* C5: in a call that has returned, the start hook has been called if and only
\* if the matching end hook has been called after it.
C5_StartBracketedByEnd ==
    pc = "returned" =>
        /\ Did(StartHook) <=> Did(EndHook)
        /\ Did(StartHook) => trace[Len(trace)] = EndHook

\* C6: with no data sources, or with every batch limit zero, the call returns
\* two empty results, never raises, runs no per-batch hook, neither the reducer
\* nor a publisher, and leaves the store as it was.
C6_NoOpShortCircuit ==
    (/\ pc \notin {"idle", "select", "skip_check"}
     /\ (dataloaders = None \/ Sum(max_batches) = 0)) =>
        /\ pc = "returned"
        /\ ret = [kind |-> "tuple", eval_loop_results |-> <<>>, eval_results |-> ListOf(<<>>)]
        /\ last_hooks = <<>> /\ stepped = {} /\ last_logged = None
        /\ ~Did("setup") /\ ~Did("run_eval_epoch_end")
        /\ ~Did("update_callback_metrics") /\ ~Did("log_evaluation_epoch_metrics")
        /\ callback_metrics = store_at_start
        /\ sink = <<>>

\* two sources, both limits zero, a store that holds a metric: skipped
C6_Witness ==
    /\ pc = "returned"
    /\ dataloaders # None /\ max_batches = <<0, 0>>
    /\ callback_metrics = [val_loss |-> Scalar(1)]

\* C7: structured outputs and no user hook of the mode: the reducer gives one
\* result per source, and a reserved slot is in it exactly when the source's
\* outputs carry it, as one 0-dim tensor equal to the mean of the per-batch values.
C7_ReservedSlotsAreMeans ==
    (Reduced /\ IsUsingEvalResults /\ overridden = {}) =>
        /\ hooks_called = <<>>
        /\ IsList(eval_results) /\ Len(eval_results.elems) = Len(outputs)
        /\ \A i \in 1..Len(outputs) :
              LET r == eval_results.elems[i]
              IN /\ IsEvalResult(r)
                 /\ \A k \in {"checkpoint_on", "early_stop_on"} :
                       /\ (k \in DOMAIN r.items) <=> (k \in DOMAIN outputs[i][1].items)
                       /\ (k \in DOMAIN r.items) =>
                             /\ r.items[k].kind = "tensor"
                             /\ r.items[k].num * Len(outputs[i]) =
                                   r.items[k].den
                                     * Sum([j \in 1..Len(outputs[i]) |-> outputs[i][j].items[k].num])

\* one source, checkpoint_on 1 then 2: the result holds 3/2
C7_Witness ==
    /\ Reduced /\ IsUsingEvalResults /\ overridden = {}
    /\ Len(outputs) = 1 /\ Len(outputs[1]) = 2
    /\ outputs[1][1].items = [checkpoint_on |-> [kind |-> "tensor", num |-> 1, den |-> 1]]
    /\ outputs[1][2].items = [checkpoint_on |-> [kind |-> "tensor", num |-> 2, den |-> 1]]
    /\ eval_results.elems[1].items = [checkpoint_on |-> [kind |-> "tensor", num |-> 3, den |-> 2]]

\* the Epoch Output as the list of the per-source lists
RawOutputs == [kind |-> "list",
               elems |-> [i \in 1..Len(outputs) |-> [kind |-> "list", elems |-> outputs[i]]]]

\* C8 as stated: legacy outputs and no user hook: for every number of sources
\* the reducer returns the list of the N per-source output lists.
C8_RawPassThroughAnyN ==
    (Reduced /\ ~IsUsingEvalResults /\ overridden = {}) =>
        /\ Len(outputs) = dataloaders.n
        /\ eval_results = RawOutputs

\* C8 amended: legacy outputs and no user hook: with two or more sources the
\* reducer returns the list of the N per-source output lists, in source order;
\* with one source it returns that source's output list itself.
C8_RawPassThrough ==
    (Reduced /\ ~IsUsingEvalResults /\ overridden = {}) =>
        /\ hooks_called = <<>>
        /\ Len(outputs) = dataloaders.n
        /\ eval_results = (IF dataloaders.n = 1
                           THEN [kind |-> "list", elems |-> outputs[1]]
                           ELSE RawOutputs)

\* two sources with limits 2 and 0: two outputs and none
C8_Witness ==
    /\ Reduced /\ ~IsUsingEvalResults /\ overridden = {}
    /\ max_batches = <<2, 0>>
    /\ Len(outputs[1]) = 2 /\ outputs[2] = <<>>
    /\ Len(eval_results.elems) = 2

\* a user hook returned a bare result in a run over one source
BareResultOneSource ==
    /\ pc = "returned" /\ Did("run_eval_epoch_end")
    /\ dataloaders.n = 1
    /\ hooks_called # <<>> /\ ~IsList(hook_ret)

C10_OneMappingPerSource ==
    (/\ pc = "returned" /\ Did("log_evaluation_epoch_metrics")
     /\ Len(eval_results.elems) = dataloaders.n) =>
        Len(ret.eval_loop_results) = dataloaders.n

\* the names in the callback view of one epoch result
CallbackViewNames(result) ==
    IF IsEvalResult(result) THEN DOMAIN CallbackMetricsOf(result)
    ELSE DOMAIN ProcessOutput(result).callback

\* C11: in a test run, with either variant, no callback-view metric of an epoch
\* result reaches the store or a reporting mapping: from the sync on the store is
\* what it was when the call began, and no reporting mapping of the returned
\* list holds a name of a callback view.
C11_TestRunLeavesStore ==
    (test_mode /\ Did("update_callback_metrics")) =>
        /\ callback_metrics = store_at_start
        /\ pc = "returned" =>
              \A j \in 1..Len(ret.eval_loop_results) :
                 \A i \in 1..Len(eval_results.elems) :
                    DOMAIN ret.eval_loop_results[j] \cap CallbackViewNames(eval_results.elems[i]) = {}

\* the outputs this run's step hook returned for source i, in order
RECURSIVE ProducedBy(_, _)
ProducedBy(p, i) ==
    IF p = <<>> THEN <<>>
    ELSE (IF Head(p).source = i THEN <<Head(p).output>> ELSE <<>>) \o ProducedBy(Tail(p), i)

ProducedOutputs == [i \in 1..dataloaders.n |-> ProducedBy(produced, i)]

Pos(e) == IF Did(e) THEN CHOOSE k \in 1..Len(trace) : trace[k] = e ELSE 0

\* the call b, when it has happened, came after the call a
Before(a, b) == Did(b) => (Did(a) /\ Pos(a) < Pos(b))

ResetHook == IF test_mode THEN "reset_test_dataloader" ELSE "reset_val_dataloader"

\* the batch loop, the reducer, the sync and the emission, in this order
RunReduceSyncEmit ==
    /\ Did("run_eval_epoch_end") => (Did("setup") /\ pc # "loop" /\ Len(outputs) = dataloaders.n)
    /\ Before("setup", "run_eval_epoch_end")
    /\ Before("run_eval_epoch_end", "update_callback_metrics")
    /\ Before("update_callback_metrics", "log_evaluation_epoch_metrics")

\* the lifecycle end of a run that was not skipped: the post hook, the reload
\* under the policy, the end hook; the model in training mode with gradients
LifecycleEnd ==
    /\ Before("log_evaluation_epoch_metrics", "on_post_performance_check")
    /\ (pc = "returned" /\ Did("setup")) =>
          /\ training /\ grad_enabled
          /\ trace[Len(trace)] = EndHook
          /\ IF reload
             THEN /\ trace[Len(trace) - 1] = ResetHook
                  /\ trace[Len(trace) - 2] = "on_post_performance_check"
             ELSE trace[Len(trace) - 1] = "on_post_performance_check"

Processed == pc = "loop" /\ Changed /\ last_batch' = "batch" /\ pc' # "raised"

\* C14: a processed batch runs the pre-batch hook, the step, the step-end
\* post-processing, the post-batch hook, the cleanup and the step-level log in
\* this order; an output that is not None is appended to the source's list after
\* them; an output of None is logged all the same, is not appended, and the loop
\* stays in the source at the next index.
C14_BatchHooksInOrder ==
    [][Processed =>
          /\ SubSeq(last_hooks', 1, 6) =
                <<"on_evaluation_batch_start", "evaluation_step", "evaluation_step_end",
                  "on_evaluation_batch_end", "evaluation_batch_end_cleanup", "log_metrics">>
          /\ pc' = "loop" /\ dataloader_idx' = dataloader_idx /\ batch_idx' = batch_idx + 1
          /\ outputs' = outputs
          /\ IF last_logged' = None
             THEN Len(last_hooks') = 6 /\ dl_outputs' = dl_outputs
             ELSE /\ Len(last_hooks') = 7 /\ last_hooks'[7] = "dl_outputs.append"
                  /\ dl_outputs' = Append(dl_outputs, last_logged')]_vars

\* the first batch of a source gave an output, the second gave None: the
\* second was logged and not appended, and the loop is still in the source
C14_Witness ==
    /\ pc = "loop" /\ dataloader_idx = 1
    /\ yielded = <<"batch", "batch">>
    /\ last_logged = None /\ Len(last_hooks) = 6
    /\ Len(dl_outputs) = 1
    /\ batch_idx = 2

\* C15: with structured outputs the reducer never fails and gives one result
\* per source, an empty output list of a source included: without a user hook
\* the epoch result has one entry per source, and with one the hook is called,
\* its argument holding one gathered result per source.
C15_OneResultPerSource ==
    (Did("run_eval_epoch_end") /\ IsUsingEvalResults) =>
        /\ pc # "raised"
        /\ IF overridden = {}
           THEN Len(eval_results.elems) = dataloaders.n
           ELSE /\ hooks_called # <<>>
                /\ IF dataloaders.n = 1 THEN IsEvalResult(hook_arg)
                   ELSE IsList(hook_arg) /\ Len(hook_arg.elems) = dataloaders.n

\* the store the claim describes: every source's callback view merged in
\* source order
RECURSIVE MergedCallbackViews(_)
MergedCallbackViews(results) ==
    IF results = <<>> THEN EmptyMap
    ELSE Update(MergedCallbackViews(SubSeq(results, 1, Len(results) - 1)),
                CallbackMetricsOf(results[Len(results)]))

\* C16: right after the sync of structured epoch results the store holds every
\* key of every source's callback view, a key of several views with the value of
\* the source of highest index.
C16_StoreHoldsEveryView ==
    (pc = "finish" /\ IsUsingEvalResults /\ \A i \in 1..Len(eval_results.elems) :
                                               IsEvalResult(eval_results.elems[i])) =>
        LET merged == MergedCallbackViews(eval_results.elems)
        IN \A k \in DOMAIN merged :
              k \in DOMAIN callback_metrics /\ callback_metrics[k] = merged[k]

\* the step hook was entered and did not return: the hooks of the latest batch
\* end with it
StepFailed == Len(last_hooks) = 2 /\ last_hooks[2] = "evaluation_step"

\* C17: when the step hook raises the call ends there with the failure: no
\* step is taken after it (no later batch, no reducer, no publisher), nothing has
\* been recorded for the batch, the store is what it was when the call began, and
\* nothing is returned.
C17_StepFailureAborts ==
    [][/\ StepFailed => ~Changed
       /\ (Changed /\ StepFailed') =>
             /\ pc' = "raised"
             /\ outputs' = outputs /\ dl_outputs' = dl_outputs /\ last_logged' = last_logged
             /\ ~Did("run_eval_epoch_end")' /\ hooks_called' = <<>>
             /\ ~Did("update_callback_metrics")' /\ ~Did("log_evaluation_epoch_metrics")'
             /\ callback_metrics' = store_at_start'
             /\ eval_results' = None /\ eval_loop_results' = <<>>
             /\ ret' = None]_vars

\* the step hook raised on the first batch of the second source, after the
\* first source gave an output, with a store an earlier run filled
C17_Witness ==
    /\ pc = "raised" /\ StepFailed
    /\ dataloader_idx = 2 /\ batch_idx = 0
    /\ Len(outputs) = 1 /\ Len(outputs[1]) = 1
    /\ callback_metrics = [val_loss |-> Scalar(1)]
    /\ ret = None

\* the gathered result of one source, its two reserved slots averaged
GatheredOf(outs) == MeanSlots(Gather(outs))

\* C18: in a run that reaches the reducer with a user hook of the mode
\* overridden, that hook has been called exactly once, after every source was
\* iterated, with a single value for one source and a list of one entry per
\* source for several; with structured outputs each entry is the gathered result
\* of its source, the reserved slots averaged.
C18_HookCalledOnceWithCollapsedArg ==
    (Did("run_eval_epoch_end") /\ overridden # {}) =>
        /\ Len(outputs) = dataloaders.n
        /\ hooks_called = <<HookFor(test_mode, overridden)>>
        /\ IF IsUsingEvalResults
           THEN IF dataloaders.n = 1
                THEN hook_arg = GatheredOf(outputs[1])
                ELSE /\ IsList(hook_arg) /\ Len(hook_arg.elems) = dataloaders.n
                     /\ \A i \in 1..dataloaders.n : hook_arg.elems[i] = GatheredOf(outputs[i])
           ELSE IF dataloaders.n = 1
                THEN hook_arg = ListOf(outputs[1])
                ELSE /\ IsList(hook_arg) /\ Len(hook_arg.elems) = dataloaders.n
                     /\ \A i \in 1..dataloaders.n : hook_arg.elems[i] = ListOf(outputs[i])

\* this step is the selection of the data sources
Selecting == pc = "select" /\ Changed

\* the provisioning collaborator built a list in this step: a new one, or none
Rebuilt(list) == resets' = resets + 1 /\ (list # None => list.gen = resets')

\* C19: the selection of a validation run rebuilds the validation list only
\* when none is materialised, and otherwise takes the materialised list and its
\* limits as they are (the same list a run before used, when the reload policy
\* is off); the selection of a test run rebuilds the test list whether or not an
\* earlier test run left one.
C19_SourceSelection ==
    [][Selecting =>
          IF test_mode
          THEN /\ Rebuilt(test_dataloaders')
               /\ trace' = Append(trace, "reset_test_dataloader")
               /\ dataloaders' = test_dataloaders' /\ max_batches' = num_test_batches'
               /\ dataloaders' # None => dataloaders' # test_dataloaders
               /\ UNCHANGED <<val_dataloaders, num_val_batches>>
          ELSE IF val_dataloaders = None
          THEN /\ Rebuilt(val_dataloaders')
               /\ trace' = Append(trace, "reset_val_dataloader")
               /\ dataloaders' = val_dataloaders' /\ max_batches' = num_val_batches'
               /\ UNCHANGED <<test_dataloaders, num_test_batches>>
          ELSE /\ dataloaders' = val_dataloaders /\ max_batches' = num_val_batches
               /\ UNCHANGED <<persistent, resets, trace>>]_vars

\* a validation run after an earlier one, the reload policy off: it runs over
\* the list the first run built, with no rebuild
C19_Witness ==
    /\ pc = "loop" /\ ~test_mode /\ ~reload
    /\ dataloaders = DataloaderList(1, 1) /\ val_dataloaders = dataloaders
    /\ max_batches = <<1>>
    /\ resets = 2
    /\ ~Did("reset_val_dataloader")

\* the positions of the current source whose batch went to the step hook,
\* read from the batches it has yielded
NonNullPositions(y) == {k \in 0..(Len(y) - 1) : y[k + 1] = "batch"}

\* a batch among the first M positions of the current source was null
NullBelowLimit(y, M) == \E k \in 0..(Len(y) - 1) : k < M /\ y[k + 1] = "null"

\* C20: the limit M[i] bounds the position of a batch, null batches counted:
\* a non-null batch at position k goes to the step hook exactly when k < M[i],
\* and otherwise ends the source; a null batch goes to no hook and never ends
\* the source, whatever its position; a source ends only at a non-null batch at
\* a position >= M[i] or when it is exhausted; so the processed positions are the
\* non-null ones before the end, all below M[i], and fewer than M[i] when one of
\* the first M[i] batches was null.
C20_LimitIsOnPosition ==
    [][(pc = "loop" /\ Changed) =>
          LET M == max_batches[dataloader_idx]
          IN /\ last_batch' \in {"batch", "over"} => (last_batch' = "batch" <=> batch_idx < M)
             /\ last_batch' = "batch" => stepped' = stepped \cup {batch_idx}
             /\ last_batch' = "null" =>
                   /\ stepped' = stepped /\ pc' = "loop"
                   /\ dataloader_idx' = dataloader_idx /\ batch_idx' = batch_idx + 1
             /\ Len(outputs') > Len(outputs) => last_batch' \in {"over", "end"}
             /\ last_batch' \in {"over", "end"} => Len(outputs') = Len(outputs) + 1
             /\ stepped = NonNullPositions(yielded)
             /\ \A k \in stepped : k < M
             /\ NullBelowLimit(yielded, M) => Cardinality(stepped) < M]_vars

\* limit 2: a null batch at position 0 and the batch at position 1 processed,
\* one batch for a limit of two
C20_Witness ==
    /\ pc = "loop" /\ max_batches[dataloader_idx] = 2
    /\ yielded = <<"null", "batch">>
    /\ stepped = {1}
    /\ batch_idx = 2

====
